---------------------------- MODULE Spec2Model ----------------------------
(***************************************************************************)
(* The dose-correction workflow of examples/eclipse_integration(1).py:     *)
(* an initial IMRT optimization, the sparse/full dose discrepancy delta,   *)
(* and the correction loop that re-optimizes with the accumulated delta.   *)
(*                                                                         *)
(* Doses are vectors over a small voxel grid.  A floating-point number is  *)
(* modelled by an exact fraction <<n, d>> in lowest terms with d > 0, or   *)
(* by one of the IEEE specials the division of numpy arrays produces:      *)
(* <<1, 0>> is +inf, <<-1, 0>> is -inf and <<0, 0>> is nan.  Rounding and  *)
(* the sign of zero are not modelled.                                      *)
(***************************************************************************)
EXTENDS Integers, Sequences, FiniteSets, TLC

(***************************************************************************)
(* Floating-point values                                                   *)
(***************************************************************************)
Abs(n) == IF n < 0 THEN -n ELSE n

Sign(n) == IF n < 0 THEN -1 ELSE IF n > 0 THEN 1 ELSE 0

RECURSIVE Gcd(_, _)
Gcd(a, b) == IF b = 0 THEN a ELSE Gcd(b, a % b)

\* The value n/d: lowest terms, positive denominator; d = 0 gives inf or nan.
Frac(n, d) ==
    IF d = 0 THEN <<Sign(n), 0>>
    ELSE LET g == Gcd(Abs(n), Abs(d))
         IN  <<Sign(d) * (n \div g), Abs(d) \div g>>

Num(k) == <<k, 1>>
Zero == <<0, 1>>
NaN == <<0, 0>>
PosInf == <<1, 0>>
NegInf == <<-1, 0>>

IsFinite(a) == a[2] # 0
IsNaN(a) == a = NaN

Neg(a) == <<-a[1], a[2]>>

Add(a, b) ==
    IF IsNaN(a) \/ IsNaN(b) THEN NaN
    ELSE IF ~IsFinite(a) /\ ~IsFinite(b) THEN (IF a = b THEN a ELSE NaN)
    ELSE IF ~IsFinite(a) THEN a
    ELSE IF ~IsFinite(b) THEN b
    ELSE LET g == Gcd(a[2], b[2])
         IN  Frac(a[1] * (b[2] \div g) + b[1] * (a[2] \div g), (a[2] \div g) * b[2])

Sub(a, b) == Add(a, Neg(b))

Mul(a, b) ==
    IF IsNaN(a) \/ IsNaN(b) THEN NaN
    ELSE IF ~IsFinite(a) \/ ~IsFinite(b) THEN <<a[1] * b[1], 0>>
    ELSE LET g == Gcd(Abs(a[1]), b[2])
             h == Gcd(Abs(b[1]), a[2])
         IN  Frac((a[1] \div g) * (b[1] \div h), (a[2] \div h) * (b[2] \div g))

\* 1/a; 1/0 is +inf (the sign of zero is not modelled), 1/inf is 0.
Recip(a) ==
    IF IsNaN(a) THEN NaN
    ELSE IF ~IsFinite(a) THEN Zero
    ELSE IF a[1] = 0 THEN PosInf
    ELSE <<Sign(a[1]) * a[2], Abs(a[1])>>

\* a / b as numpy divides: x/0 is inf of x's sign, 0/0 and inf/inf are nan.
Div(a, b) ==
    IF IsFinite(b) /\ b[1] = 0
    THEN (IF IsNaN(a) THEN NaN ELSE <<Sign(a[1]), 0>>)
    ELSE Mul(a, Recip(b))

\* The order numpy sorts by: -inf < finite values < +inf < nan.
Rank(a) == IF IsNaN(a) THEN 3 ELSE IF a = PosInf THEN 2 ELSE IF a = NegInf THEN 0 ELSE 1

Leq(a, b) ==
    IF Rank(a) # Rank(b) THEN Rank(a) < Rank(b)
    ELSE IF Rank(a) # 1 THEN TRUE
    ELSE a[1] * b[2] <= b[1] * a[2]

\* IEEE comparison a > 0 (false for nan).
IsPositive(a) == a[1] > 0

(***************************************************************************)
(* Dose vectors and the plan's data                                        *)
(***************************************************************************)
\* Bound of the model: the largest iteration count a user sets num_corr to.
MaxNumCorr == 2

\* Protocol 'Lung_2Gy_30Fx': 30 fractions of 2 Gy, normalized at PTV volume 90.
NumOfFractions == 30
Prescription == 60
norm_volume == 90

\* The runs of the script that are compared; the first is the run modelled alone.
Runs == {"first", "second"}
MainRun == "first"

Voxels == 1..3
Beamlets == 1..2
\* Voxels of the structure norm_struct = 'PTV'.
norm_struct == {1, 2}

\* A name that is not bound yet.
Unbound == <<>>

\* Full influence matrices A[voxel][beamlet] the plan's data may hold.
FullMatrices ==
    { << <<2, 0>>, <<2, 2>>, <<1, 1>> >>,
      << <<0, 2>>, <<2, 2>>, <<2, 2>> >>,
      << <<1, 3>>, <<3, 1>>, <<1, 0>> >> }

\* The sparse matrix is the full one with its small entries truncated to 0.
Truncate(A) == [v \in Voxels |-> [b \in Beamlets |-> IF A[v][b] <= 1 THEN 0 ELSE A[v][b]]]

\* Beamlet intensities the solver may return (non-negative).
Intensities ==
    { <<Num(1), Num(1)>>, <<Num(2), Num(0)>>, <<Num(0), Num(2)>>, <<Num(1), Num(2)>> }

RECURSIVE Dot(_, _, _)
Dot(row, xs, n) ==
    IF n = 0 THEN Zero ELSE Add(Dot(row, xs, n - 1), Mul(Num(row[n]), xs[n]))

\* A @ xs
MatVec(A, xs) == [v \in Voxels |-> Dot(A[v], xs, Len(xs))]

VScale(u, c) == [k \in DOMAIN u |-> Mul(u[k], c)]
VDiv(u, c) == [k \in DOMAIN u |-> Div(u[k], c)]
VAdd(u, w) == [k \in DOMAIN u |-> Add(u[k], w[k])]
VSub(u, w) == [k \in DOMAIN u |-> Sub(u[k], w[k])]

ZeroVec == [v \in Voxels |-> Zero]

Fractions == Num(NumOfFractions)
pres == Num(Prescription)

\* pp.Evaluation.get_dose: the dose that volume_per percent of the structure's
\* voxels reach, i.e. the largest dose level d of the structure such that at
\* least volume_per percent of its voxels receive d or more.
\* (Its first argument, a solution, only names the plan: the dose is given.)
Covered(dose_1d, struct, d) == Cardinality({v \in struct : Leq(d, dose_1d[v])})

GetDose(dose_1d, struct, volume_per) ==
    LET levels == {dose_1d[v] : v \in struct}
        ok == {d \in levels :
                 100 * Covered(dose_1d, struct, d) >= volume_per * Cardinality(struct)}
    IN  CHOOSE d \in ok : \A e \in ok : Leq(e, d)

\* The factor without the prescription: doses normalized to 1, not to pres.
NormFactorNoPrescription(dose_1d) == GetDose(dose_1d, norm_struct, norm_volume)

\* Lines 130/133/159/162: get_dose(...) / pres
NormFactor(dose_1d) == Div(GetDose(dose_1d, norm_struct, norm_volume), pres)

\* Lines 131/134/160/163: dose / norm_factor
Normalize(dose_1d, norm_factor) == VDiv(dose_1d, norm_factor)

\* Lines 97/111/152: A @ (optimal_intensity * num_of_fractions)
DoseOf(A, xs) == MatVec(A, VScale(xs, Fractions))

\* The sparse dose with the injected delta left out.
CorrectedDoseNoDelta(A, xs, d) == VScale(MatVec(A, xs), Fractions)

\* Line 151: (A @ optimal_intensity + delta) * num_of_fractions
CorrectedDose(A, xs, d) == VScale(VAdd(MatVec(A, xs), d), Fractions)

\* The difference taken the wrong way round.
DeltaSparseMinusFull(full_norm, sparse_norm) == VDiv(VSub(sparse_norm, full_norm), Fractions)

\* The difference multiplied by the number of fractions instead of divided.
DeltaTimesFractions(full_norm, sparse_norm) == VScale(VSub(full_norm, sparse_norm), Fractions)

\* Lines 136/165: (full_norm - sparse_norm) / num_of_fractions
DeltaOf(full_norm, sparse_norm) == VDiv(VSub(full_norm, sparse_norm), Fractions)

\* The total overwritten by the new delta: the previous total is lost.
AccumulatedDropsOld(old, new) == new

\* Line 175: old_delta + delta
Accumulated(old, new) == VAdd(old, new)

(***************************************************************************)
(* State.  Each variable maps a run of the script to the value the run's   *)
(* name holds; the plan's data, the solver's results and num_corr are the  *)
(* script's inputs, the same for every run.                                *)
(***************************************************************************)
VARIABLES
    inf_matrix_A,         \* sparse influence matrix (line 48)
    inf_matrix_full_A,    \* full influence matrix (line 110)
    solver,               \* solver[k]: optimal intensity of the k-th opt.solve
    num_corr,             \* line 142
    pc,                   \* position of the run in the script
    sol, sol_corr,
    dose_sparse_1d, dose_full_1d,
    dose_sparse_1d_norm, dose_full_1d_norm,
    norm_factor_sparse, norm_factor_full,
    delta, old_delta, i,
    dose_sparse_corr_1d, dose_full_corr_1d,
    dose_sparse_corr_1d_norm, dose_full_corr_1d_norm,
    solves,               \* number of opt.solve calls made
    injected,             \* deltas given to create_cvxpy_problem_correction
    computed,             \* deltas computed at line 165
    totals,               \* running totals left by line 175
    exported,             \* solutions given to get_eclipse_fluence
    failed_at             \* position of the call that raised, "" if none

inputs == <<inf_matrix_A, inf_matrix_full_A, solver, num_corr>>
initial == <<sol, dose_sparse_1d, dose_full_1d, dose_sparse_1d_norm, dose_full_1d_norm>>
factors == <<norm_factor_sparse, norm_factor_full>>
deltas == <<delta, old_delta>>
corr == <<sol_corr, dose_sparse_corr_1d, dose_full_corr_1d,
          dose_sparse_corr_1d_norm, dose_full_corr_1d_norm>>
history == <<solves, injected, computed, totals, exported, failed_at>>
vars == <<inputs, pc, initial, factors, deltas, i, corr, history>>

Put(f, r, val) == [f EXCEPT ![r] = val]
Goto(r, to) == pc' = Put(pc, r, to)

Init ==
    /\ inf_matrix_full_A \in FullMatrices
    /\ inf_matrix_A = Truncate(inf_matrix_full_A)
    /\ num_corr \in 0..MaxNumCorr
    /\ solver \in [0..MaxNumCorr -> Intensities]
    \* results of solves the script never makes are immaterial: fix them
    /\ \A k \in 0..MaxNumCorr : k > num_corr => solver[k] = solver[0]
    /\ pc = [r \in Runs |-> "solve"]
    /\ sol = [r \in Runs |-> Unbound]
    /\ sol_corr = [r \in Runs |-> Unbound]
    /\ dose_sparse_1d = [r \in Runs |-> Unbound]
    /\ dose_full_1d = [r \in Runs |-> Unbound]
    /\ dose_sparse_1d_norm = [r \in Runs |-> Unbound]
    /\ dose_full_1d_norm = [r \in Runs |-> Unbound]
    /\ norm_factor_sparse = [r \in Runs |-> Unbound]
    /\ norm_factor_full = [r \in Runs |-> Unbound]
    /\ delta = [r \in Runs |-> Unbound]
    /\ old_delta = [r \in Runs |-> Unbound]
    /\ i = [r \in Runs |-> -1]
    /\ dose_sparse_corr_1d = [r \in Runs |-> Unbound]
    /\ dose_full_corr_1d = [r \in Runs |-> Unbound]
    /\ dose_sparse_corr_1d_norm = [r \in Runs |-> Unbound]
    /\ dose_full_corr_1d_norm = [r \in Runs |-> Unbound]
    /\ solves = [r \in Runs |-> 0]
    /\ injected = [r \in Runs |-> <<>>]
    /\ computed = [r \in Runs |-> <<>>]
    /\ totals = [r \in Runs |-> <<>>]
    /\ exported = [r \in Runs |-> <<>>]
    /\ failed_at = [r \in Runs |-> ""]

\* A solver that keeps state from one run of the script to the next.
SolveResultAcrossRuns(r) ==
    LET calls == solves[r] + (IF r = MainRun THEN 0 ELSE solves[MainRun])
    IN  solver[calls % (MaxNumCorr + 1)]

\* Lines 57/149: what opt.solve returns on the run's next call.
SolveResult(r) == solver[solves[r]]

\* A loop that also stops once the delta has converged to zero.
ContinueUntilConverged(r) == i[r] + 1 < num_corr /\ delta[r] # ZeroVec

\* Line 143: range(num_corr) has a next value.
Continue(r) == i[r] + 1 < num_corr

\* The doses of an iteration computed from the initial solution.
InitialSolution(r) == sol[r]

\* Lines 151-152: the solution the iteration's doses are computed from.
IterationSolution(r) == sol_corr[r]

\* The initial solution written again, as at line 78.
ExportedInitialSolution(r) == sol[r]

\* Line 182: the solution written as the corrected fluence.
ExportedSolution(r) == sol_corr[r]

(***************************************************************************)
(* The script, one action per step                                         *)
(***************************************************************************)
\* Lines 54-57: build the problem and solve it.
SolveInitial(r) ==
    /\ pc[r] = "solve"
    /\ sol' = Put(sol, r, SolveResult(r))
    /\ solves' = Put(solves, r, solves[r] + 1)
    /\ Goto(r, "export")
    /\ UNCHANGED <<inputs, dose_sparse_1d, dose_full_1d, dose_sparse_1d_norm,
                   dose_full_1d_norm, factors, deltas, i, corr,
                   injected, computed, totals, exported, failed_at>>

\* Lines 76-91: write the fluence for Eclipse, read the Eclipse dose back.
ExportInitial(r) ==
    /\ pc[r] = "export"
    /\ exported' = Put(exported, r, Append(exported[r], sol[r]))
    /\ Goto(r, "doses")
    /\ UNCHANGED <<inputs, initial, factors, deltas, i, corr,
                   solves, injected, computed, totals, failed_at>>

\* Lines 97-119: dose of the initial solution under the sparse and the full matrix.
ComputeDoses(r) ==
    /\ pc[r] = "doses"
    /\ dose_sparse_1d' = Put(dose_sparse_1d, r, DoseOf(inf_matrix_A, sol[r]))
    /\ dose_full_1d' = Put(dose_full_1d, r, DoseOf(inf_matrix_full_A, sol[r]))
    /\ Goto(r, "normalize")
    /\ UNCHANGED <<inputs, sol, dose_sparse_1d_norm, dose_full_1d_norm,
                   factors, deltas, i, corr, history>>

\* Lines 126-134: normalize both doses to the reference point.
NormalizeInitial(r) ==
    /\ pc[r] = "normalize"
    /\ norm_factor_sparse' = Put(norm_factor_sparse, r, NormFactor(dose_sparse_1d[r]))
    /\ dose_sparse_1d_norm' =
           Put(dose_sparse_1d_norm, r, Normalize(dose_sparse_1d[r], NormFactor(dose_sparse_1d[r])))
    /\ norm_factor_full' = Put(norm_factor_full, r, NormFactor(dose_full_1d[r]))
    /\ dose_full_1d_norm' =
           Put(dose_full_1d_norm, r, Normalize(dose_full_1d[r], NormFactor(dose_full_1d[r])))
    /\ Goto(r, "delta")
    /\ UNCHANGED <<inputs, sol, dose_sparse_1d, dose_full_1d, deltas, i, corr, history>>

\* Line 136: the initial delta.
InitialDelta(r) ==
    /\ pc[r] = "delta"
    /\ delta' = Put(delta, r, DeltaOf(dose_full_1d_norm[r], dose_sparse_1d_norm[r]))
    /\ Goto(r, "loop_init")
    /\ UNCHANGED <<inputs, initial, factors, old_delta, i, corr, history>>

\* Lines 141-142: old_delta = delta (num_corr is an input of the run).
LoopInit(r) ==
    /\ pc[r] = "loop_init"
    /\ old_delta' = Put(old_delta, r, delta[r])
    /\ Goto(r, "loop_head")
    /\ UNCHANGED <<inputs, initial, factors, delta, i, corr, history>>

\* Line 143: for i in range(num_corr).
LoopHead(r) ==
    /\ pc[r] = "loop_head"
    /\ IF Continue(r)
       THEN /\ i' = Put(i, r, i[r] + 1)
            /\ Goto(r, "create")
       ELSE /\ i' = i
            /\ Goto(r, "export_corr")
    /\ UNCHANGED <<inputs, initial, factors, deltas, corr, history>>

\* Lines 145-148: a new problem with delta as the correction term.
CreateCorrection(r) ==
    /\ pc[r] = "create"
    /\ injected' = Put(injected, r, Append(injected[r], delta[r]))
    /\ Goto(r, "solve_corr")
    /\ UNCHANGED <<inputs, initial, factors, deltas, i, corr,
                   solves, computed, totals, exported, failed_at>>

\* Line 149: solve it.
SolveCorrection(r) ==
    /\ pc[r] = "solve_corr"
    /\ sol_corr' = Put(sol_corr, r, SolveResult(r))
    /\ solves' = Put(solves, r, solves[r] + 1)
    /\ Goto(r, "doses_corr")
    /\ UNCHANGED <<inputs, initial, factors, deltas, i, dose_sparse_corr_1d,
                   dose_full_corr_1d, dose_sparse_corr_1d_norm, dose_full_corr_1d_norm,
                   injected, computed, totals, exported, failed_at>>

\* Lines 151-152: corrected sparse dose and full dose of the new solution.
ComputeCorrectedDoses(r) ==
    /\ pc[r] = "doses_corr"
    /\ dose_sparse_corr_1d' =
           Put(dose_sparse_corr_1d, r, CorrectedDose(inf_matrix_A, IterationSolution(r), delta[r]))
    /\ dose_full_corr_1d' =
           Put(dose_full_corr_1d, r, DoseOf(inf_matrix_full_A, IterationSolution(r)))
    /\ Goto(r, "normalize_corr")
    /\ UNCHANGED <<inputs, initial, factors, deltas, i, sol_corr,
                   dose_sparse_corr_1d_norm, dose_full_corr_1d_norm, history>>

\* Lines 155-163: normalize both to the reference point.
NormalizeCorrected(r) ==
    /\ pc[r] = "normalize_corr"
    /\ norm_factor_sparse' = Put(norm_factor_sparse, r, NormFactor(dose_sparse_corr_1d[r]))
    /\ dose_sparse_corr_1d_norm' =
           Put(dose_sparse_corr_1d_norm, r,
               Normalize(dose_sparse_corr_1d[r], NormFactor(dose_sparse_corr_1d[r])))
    /\ norm_factor_full' = Put(norm_factor_full, r, NormFactor(dose_full_corr_1d[r]))
    /\ dose_full_corr_1d_norm' =
           Put(dose_full_corr_1d_norm, r,
               Normalize(dose_full_corr_1d[r], NormFactor(dose_full_corr_1d[r])))
    /\ Goto(r, "delta_corr")
    /\ UNCHANGED <<inputs, initial, deltas, i, sol_corr, dose_sparse_corr_1d,
                   dose_full_corr_1d, history>>

\* Line 165: the delta of this iteration.
RecomputeDelta(r) ==
    /\ pc[r] = "delta_corr"
    /\ delta' = Put(delta, r, DeltaOf(dose_full_corr_1d_norm[r], dose_sparse_corr_1d_norm[r]))
    /\ computed' = Put(computed, r,
                       Append(computed[r],
                              DeltaOf(dose_full_corr_1d_norm[r], dose_sparse_corr_1d_norm[r])))
    /\ Goto(r, "plot_corr")
    /\ UNCHANGED <<inputs, initial, factors, old_delta, i, corr,
                   solves, injected, totals, exported, failed_at>>

\* Lines 167-174: plot the DVHs of the iteration.
PlotCorrection(r) ==
    /\ pc[r] = "plot_corr"
    /\ Goto(r, "accumulate")
    /\ UNCHANGED <<inputs, initial, factors, deltas, i, corr, history>>

\* Lines 175-176: delta = old_delta + delta; old_delta = delta.
Accumulate(r) ==
    /\ pc[r] = "accumulate"
    /\ delta' = Put(delta, r, Accumulated(old_delta[r], delta[r]))
    /\ old_delta' = Put(old_delta, r, delta'[r])
    /\ totals' = Put(totals, r, Append(totals[r], delta'[r]))
    /\ Goto(r, "loop_head")
    /\ UNCHANGED <<inputs, initial, factors, i, corr,
                   solves, injected, computed, exported, failed_at>>

\* Line 182: write the corrected fluence; sol_corr is unbound (NameError) when
\* the loop body never ran.
ExportCorrected(r) ==
    /\ pc[r] = "export_corr"
    /\ IF sol_corr[r] = Unbound
       THEN /\ Goto(r, "failed")
            /\ failed_at' = Put(failed_at, r, pc[r])
            /\ exported' = exported
       ELSE /\ Goto(r, "import_corr")
            /\ exported' = Put(exported, r, Append(exported[r], ExportedSolution(r)))
            /\ failed_at' = failed_at
    /\ UNCHANGED <<inputs, initial, factors, deltas, i, corr,
                   solves, injected, computed, totals>>

\* Lines 184-205: read the corrected Eclipse dose, plot, print 'Done!'.
Finish(r) ==
    /\ pc[r] = "import_corr"
    /\ Goto(r, "done")
    /\ UNCHANGED <<inputs, initial, factors, deltas, i, corr, history>>

\* The positions whose step calls the library or the solver.
CallSites ==
    {"solve", "export", "doses", "normalize", "delta", "create", "solve_corr",
     "doses_corr", "normalize_corr", "delta_corr", "plot_corr", "export_corr",
     "import_corr"}

\* A failed call that is tried again.
AfterRaiseRetry(at) == at

\* Where a run is after a call raised: the script has no try/except, so the
\* exception ends the interpreter.
AfterRaise(at) == "failed"

\* A library or solver call raises.
Raise(r) ==
    /\ pc[r] \in CallSites
    /\ Goto(r, AfterRaise(pc[r]))
    /\ failed_at' = Put(failed_at, r, pc[r])
    /\ UNCHANGED <<inputs, initial, factors, deltas, i, corr,
                   solves, injected, computed, totals, exported>>

Step(r) ==
    \/ SolveInitial(r)
    \/ ExportInitial(r)
    \/ ComputeDoses(r)
    \/ NormalizeInitial(r)
    \/ InitialDelta(r)
    \/ LoopInit(r)
    \/ LoopHead(r)
    \/ CreateCorrection(r)
    \/ SolveCorrection(r)
    \/ ComputeCorrectedDoses(r)
    \/ NormalizeCorrected(r)
    \/ RecomputeDelta(r)
    \/ PlotCorrection(r)
    \/ Accumulate(r)
    \/ ExportCorrected(r)
    \/ Finish(r)
    \/ Raise(r)

\* One run of the script.
Next == Step(MainRun)

Spec == Init /\ [][Next]_vars

\* Two runs of the script on the same inputs: the second starts when the
\* first is done.
NextPair ==
    \/ Step(MainRun)
    \/ \E r \in Runs \ {MainRun} : pc[MainRun] = "done" /\ Step(r)

PairSpec == Init /\ [][NextPair]_vars

(***************************************************************************)
(* Properties                                                              *)
(***************************************************************************)
AllFinite(u) == \A k \in DOMAIN u : IsFinite(u[k])

\* IEEE equality of two dose vectors: nan equals nothing.
VEq(u, w) == \A k \in DOMAIN u : ~IsNaN(u[k]) /\ ~IsNaN(w[k]) /\ u[k] = w[k]

\* The value line 136 leaves in delta; its operands are bound once.
InitialDeltaValue(r) ==
    [v \in Voxels |-> Div(Sub(dose_full_1d_norm[r][v], dose_sparse_1d_norm[r][v]), Fractions)]

\* The running total when iteration k begins.
TotalBefore(r, k) == IF k = 1 THEN InitialDeltaValue(r) ELSE totals[r][k - 1]

RECURSIVE SumFrom(_, _, _)
SumFrom(init, ds, k) ==
    IF k = 0 THEN init
    ELSE LET prev == SumFrom(init, ds, k - 1)
         IN  [v \in Voxels |-> Add(prev[v], ds[k][v])]

\* A run that has just finished an iteration of the loop.
IterationEnded(r) == pc[r] = "loop_head" /\ Len(totals[r]) >= 1

\* C1: at the end of every iteration the running total delta is the total of
\* the end of the previous iteration (the initial delta for the first one)
\* plus the delta computed in this iteration, old_delta equals delta, and so
\* after k iterations delta is the initial delta plus the k computed deltas.
C1_RunningTotal ==
    \A r \in Runs : IterationEnded(r) =>
        LET k == Len(totals[r])
        IN  /\ Len(computed[r]) = k
            /\ delta[r] = [v \in Voxels |-> Add(TotalBefore(r, k)[v], computed[r][k][v])]
            /\ old_delta[r] = delta[r]
            /\ delta[r] = SumFrom(InitialDeltaValue(r), computed[r], k)

C1_Witness ==
    /\ IterationEnded(MainRun)
    /\ Len(totals[MainRun]) = 2
    /\ AllFinite(delta[MainRun])
    /\ computed[MainRun][2] # ZeroVec
    /\ computed[MainRun][1] # ZeroVec
    /\ InitialDeltaValue(MainRun) # ZeroVec

\* The positions after the loop.
AfterLoop(r) == pc[r] \in {"export_corr", "import_corr", "done"}
Ended(r) == pc[r] \in {"done", "failed"}

\* Everything a run holds.
RunState(r) ==
    <<pc[r], sol[r], sol_corr[r], dose_sparse_1d[r], dose_full_1d[r],
      dose_sparse_1d_norm[r], dose_full_1d_norm[r], norm_factor_sparse[r],
      norm_factor_full[r], delta[r], old_delta[r], i[r], dose_sparse_corr_1d[r],
      dose_full_corr_1d[r], dose_sparse_corr_1d_norm[r], dose_full_corr_1d_norm[r],
      solves[r], injected[r], computed[r], totals[r], exported[r], failed_at[r]>>

\* Steps from a position to the next evaluation of the loop's head.
StepsToHead(p) ==
    CASE p = "solve" -> 6 [] p = "export" -> 5 [] p = "doses" -> 4
      [] p = "normalize" -> 3 [] p = "delta" -> 2 [] p = "loop_init" -> 1
      [] p = "loop_head" -> 0
      [] p = "create" -> 7 [] p = "solve_corr" -> 6 [] p = "doses_corr" -> 5
      [] p = "normalize_corr" -> 4 [] p = "delta_corr" -> 3 [] p = "plot_corr" -> 2
      [] p = "accumulate" -> 1

\* Iterations that have not reached the loop's head again yet.
IterationsLeft(r) ==
    num_corr - Len(totals[r]) - (IF pc[r] \in {"create", "solve_corr", "doses_corr",
                                              "normalize_corr", "delta_corr", "plot_corr",
                                              "accumulate"} THEN 1 ELSE 0)

\* The steps a run has left when it makes exactly num_corr iterations.
StepsLeft(r) ==
    CASE pc[r] \in {"done", "failed"} -> 0
      [] pc[r] = "import_corr" -> 1
      [] pc[r] = "export_corr" -> 2
      [] OTHER -> StepsToHead(pc[r]) + 8 * IterationsLeft(r) + 3

\* C2: the loop runs exactly num_corr iterations, whatever the deltas and
\* doses are, and then ends: at its head the loop goes on while fewer than
\* num_corr iterations are complete and leaves when num_corr are, control is
\* after the loop only with num_corr iterations complete, and every step of
\* a run takes it closer to its end, so that no run goes on for ever.
C2_FixedIterationCount ==
    [][\A r \in Runs :
          /\ Len(totals'[r]) <= num_corr
          /\ AfterLoop(r)' => (Len(totals'[r]) = num_corr /\ i'[r] = num_corr - 1)
          /\ (pc[r] = "loop_head" /\ RunState(r)' # RunState(r)) =>
                pc'[r] = (IF Len(totals[r]) < num_corr THEN "create" ELSE "export_corr")
          /\ RunState(r)' # RunState(r) =>
                (StepsLeft(r)' >= 0 /\ StepsLeft(r)' < StepsLeft(r))]_vars

\* Two iterations ran although the first already computed a zero delta.
C2_Witness ==
    /\ pc[MainRun] = "done"
    /\ num_corr = 2
    /\ Len(totals[MainRun]) = 2
    /\ InitialDeltaValue(MainRun) = ZeroVec
    /\ computed[MainRun][1] = ZeroVec

\* The dose-at-volume of the reference structure.
RefDose(dose_1d) == GetDose(dose_1d, norm_struct, norm_volume)

\* norm is dose divided by (its reference dose / prescription).
DividedByFactor(norm, dose_1d) ==
    norm = [v \in Voxels |-> Div(dose_1d[v], Div(RefDose(dose_1d), pres))]

\* The normalized doses that are current at the run's position, with the
\* doses they were normalized from.
NormalizedPairs(r) ==
    (IF dose_sparse_1d_norm[r] # Unbound
     THEN {<<dose_sparse_1d_norm[r], dose_sparse_1d[r]>>,
           <<dose_full_1d_norm[r], dose_full_1d[r]>>}
     ELSE {})
    \cup
    (IF pc[r] \in {"delta_corr", "plot_corr", "accumulate"}
     THEN {<<dose_sparse_corr_1d_norm[r], dose_sparse_corr_1d[r]>>,
           <<dose_full_corr_1d_norm[r], dose_full_corr_1d[r]>>}
     ELSE {})

\* C3 as stated: every normalization divides the dose by (reference dose /
\* prescription) and leaves the reference dose equal to the prescription.
C3_AsStated ==
    \A r \in Runs : \A p \in NormalizedPairs(r) :
        DividedByFactor(p[1], p[2]) /\ RefDose(p[1]) = pres

\* C3 (amended): every normalization divides the dose by (reference dose /
\* prescription); the normalized dose has the reference dose equal to the
\* prescription whenever the reference dose it was normalized from is a
\* positive finite number.
C3_Normalized ==
    \A r \in Runs : \A p \in NormalizedPairs(r) :
        /\ DividedByFactor(p[1], p[2])
        /\ (IsFinite(RefDose(p[2])) /\ IsPositive(RefDose(p[2]))) => RefDose(p[1]) = pres

C3_Witness ==
    /\ pc[MainRun] = "delta_corr"
    /\ Len(totals[MainRun]) = 1
    /\ \A p \in NormalizedPairs(MainRun) :
          IsFinite(RefDose(p[2])) /\ IsPositive(RefDose(p[2])) /\ RefDose(p[1]) = pres
    /\ dose_sparse_corr_1d_norm[MainRun] # dose_sparse_corr_1d[MainRun]
    /\ dose_sparse_corr_1d_norm[MainRun] # dose_full_corr_1d_norm[MainRun]

Min(a, b) == IF a < b THEN a ELSE b

TreatmentDose(A, xs) ==
    [v \in Voxels |-> Dot(A[v], [b \in Beamlets |-> Mul(xs[b], Fractions)], Len(xs))]

NormalizedTo(dose_1d) ==
    [v \in Voxels |-> Div(dose_1d[v], Div(RefDose(dose_1d), pres))]

\* The delta of the initial solution: normalized full dose minus normalized
\* sparse dose, divided by the number of fractions.
ExpectedInitialDelta ==
    LET full == NormalizedTo(TreatmentDose(inf_matrix_full_A, solver[0]))
        sparse == NormalizedTo(TreatmentDose(inf_matrix_A, solver[0]))
    IN  [v \in Voxels |-> Div(Sub(full[v], sparse[v]), Fractions)]

\* C5: the delta the loop starts from is the full dose minus the sparse dose
\* of the initial solution, both normalized to the reference point (PTV,
\* volume 90, prescription), divided by the number of fractions.
C5_InitialDelta ==
    \A r \in Runs :
        /\ pc[r] \in {"loop_init", "loop_head"} /\ totals[r] = <<>>
              => delta[r] = ExpectedInitialDelta
        /\ pc[r] = "loop_head" => (totals[r] = <<>> => old_delta[r] = ExpectedInitialDelta)
        /\ injected[r] # <<>> => injected[r][1] = ExpectedInitialDelta

C5_Witness ==
    /\ pc[MainRun] = "solve_corr"
    /\ Len(injected[MainRun]) = 1
    /\ AllFinite(injected[MainRun][1])
    /\ \E v \in Voxels : IsPositive(injected[MainRun][1][v])
    /\ \E v \in Voxels : IsPositive(Neg(injected[MainRun][1][v]))

\* C6: the delta an iteration computes is the normalized full dose minus the
\* normalized sparse dose of that iteration, divided by the number of
\* fractions, and it is computed before the running total changes.
C6_RecomputedDelta ==
    \A r \in Runs : pc[r] = "plot_corr" =>
        /\ DividedByFactor(dose_full_corr_1d_norm[r], dose_full_corr_1d[r])
        /\ DividedByFactor(dose_sparse_corr_1d_norm[r], dose_sparse_corr_1d[r])
        /\ delta[r] = [v \in Voxels |->
                         Div(Sub(dose_full_corr_1d_norm[r][v], dose_sparse_corr_1d_norm[r][v]),
                             Fractions)]
        /\ Len(computed[r]) = Len(totals[r]) + 1
        /\ computed[r][Len(computed[r])] = delta[r]
        /\ old_delta[r] = TotalBefore(r, Len(computed[r]))

C6_Witness ==
    /\ pc[MainRun] = "plot_corr"
    /\ Len(computed[MainRun]) = 2
    /\ AllFinite(delta[MainRun])
    /\ delta[MainRun] # ZeroVec
    /\ delta[MainRun] # computed[MainRun][1]

\* Positions of an iteration at which its doses have been computed.
DosesComputed(r) == pc[r] \in {"normalize_corr", "delta_corr", "plot_corr", "accumulate"}

\* C7: in every iteration the optimization is solved once with the running
\* total of the end of the previous iteration injected (the initial delta in
\* the first), then the doses are computed from that iteration's solution,
\* then the delta, then the total: injection k precedes solve k, which
\* precedes delta k, which precedes total k.
C7_IterationOrder ==
    \A r \in Runs :
        /\ \A k \in 1..Len(injected[r]) : injected[r][k] = TotalBefore(r, k)
        /\ Len(totals[r]) <= Len(computed[r])
        /\ Len(computed[r]) <= Len(injected[r])
        /\ Len(injected[r]) <= Len(totals[r]) + 1
        /\ pc[r] = "loop_head" => solves[r] = Len(totals[r]) + 1
        /\ pc[r] \in {"create", "solve_corr"} =>
              (solves[r] = i[r] + 1 /\ Len(totals[r]) = i[r])
        /\ pc[r] = "solve_corr" => Len(injected[r]) = i[r] + 1
        /\ pc[r] = "doses_corr" => (solves[r] = i[r] + 2 /\ sol_corr[r] = solver[i[r] + 1])
        /\ DosesComputed(r) =>
              /\ solves[r] = i[r] + 2
              /\ Len(injected[r]) = i[r] + 1
              /\ dose_full_corr_1d[r] = TreatmentDose(inf_matrix_full_A, solver[i[r] + 1])
              /\ dose_sparse_corr_1d[r] =
                     [v \in Voxels |->
                        Mul(Add(Dot(inf_matrix_A[v], solver[i[r] + 1], Len(solver[i[r] + 1])),
                                injected[r][i[r] + 1][v]),
                            Fractions)]

C7_Witness ==
    /\ pc[MainRun] = "accumulate"
    /\ i[MainRun] = 1
    /\ solver[2] # solver[1]
    /\ solver[2] # solver[0]
    /\ injected[MainRun][2] # injected[MainRun][1]
    /\ AllFinite(dose_sparse_corr_1d[MainRun])

\* Failures raised inside the loop.
LoopSites ==
    {"create", "solve_corr", "doses_corr", "normalize_corr", "delta_corr", "plot_corr"}

\* C8: a call that raises ends the run at that call: the run is failed from
\* then on and nothing of it changes any more (no retry, no later step, no
\* further iteration), and a failure inside the loop leaves no corrected
\* fluence exported.
C8_FailurePropagates ==
    [][\A r \in Runs :
          /\ failed_at'[r] # "" => pc'[r] = "failed"
          /\ failed_at'[r] # failed_at[r] => (failed_at[r] = "" /\ failed_at'[r] = pc[r])
          /\ failed_at[r] # "" =>
                /\ failed_at'[r] = failed_at[r]
                /\ solves'[r] = solves[r]
                /\ injected'[r] = injected[r]
                /\ totals'[r] = totals[r]
                /\ exported'[r] = exported[r]
                /\ delta'[r] = delta[r]
          /\ failed_at'[r] \in LoopSites => Len(exported'[r]) = 1]_vars

C8_Witness ==
    /\ pc[MainRun] = "failed"
    /\ failed_at[MainRun] = "solve_corr"
    /\ Len(totals[MainRun]) = 1
    /\ num_corr = 2
    /\ solves[MainRun] = 2
    /\ Len(exported[MainRun]) = 1

\* C9: the sparse dose of an iteration is (sparse matrix applied to the new
\* solution plus the injected delta) times the number of fractions, the full
\* dose is the full matrix applied to the new solution times the number of
\* fractions with no delta; so when the two normalized doses are equal the
\* iteration computes a zero delta and leaves the running total unchanged.
C9_CorrectedDoses ==
    \A r \in Runs :
        /\ DosesComputed(r) =>
              /\ dose_sparse_corr_1d[r] =
                     [v \in Voxels |->
                        Mul(Add(Dot(inf_matrix_A[v], sol_corr[r], Len(sol_corr[r])),
                                injected[r][Len(injected[r])][v]),
                            Fractions)]
              /\ dose_full_corr_1d[r] = TreatmentDose(inf_matrix_full_A, sol_corr[r])
        /\ (IterationEnded(r)
              /\ VEq(dose_full_corr_1d_norm[r], dose_sparse_corr_1d_norm[r])) =>
              /\ computed[r][Len(totals[r])] = ZeroVec
              /\ totals[r][Len(totals[r])] = TotalBefore(r, Len(totals[r]))

\* A non-zero total is left unchanged by an iteration with equal normalized doses.
C9_Witness ==
    /\ IterationEnded(MainRun)
    /\ VEq(dose_full_corr_1d_norm[MainRun], dose_sparse_corr_1d_norm[MainRun])
    /\ delta[MainRun] # ZeroVec
    /\ inf_matrix_A # inf_matrix_full_A

\* C10: for num_corr >= 1 the corrected fluence written after the loop is the
\* solution of the last iteration, optimized with the total of the preceding
\* num_corr - 1 iterations; the total the last iteration leaves is injected
\* nowhere.  For num_corr = 0 there is no corrected solution at the export.
C10_ExportedSolution ==
    \A r \in Runs :
        /\ pc[r] \in {"import_corr", "done"} =>
              /\ num_corr >= 1
              /\ exported[r] = <<solver[0], solver[num_corr]>>
              /\ Len(injected[r]) = num_corr
              /\ Len(totals[r]) = num_corr
              /\ injected[r][num_corr] = TotalBefore(r, num_corr)
              /\ delta[r] = totals[r][num_corr]
        /\ (num_corr = 0 /\ pc[r] = "export_corr") => sol_corr[r] = Unbound
        /\ num_corr = 0 => pc[r] \notin {"import_corr", "done"}
        /\ num_corr = 0 => (Len(exported[r]) <= 1 /\ injected[r] = <<>>)

C10_Witness ==
    /\ pc[MainRun] = "done"
    /\ num_corr = 2
    /\ solver[2] # solver[1]
    /\ solver[2] # solver[0]
    /\ totals[MainRun][2] # totals[MainRun][1]
    /\ totals[MainRun][1] # InitialDeltaValue(MainRun)
=============================================================================
